---- MODULE Spec2Model ----
(***************************************************************************)
(* analyses/manuscript_fig_4.py: the figure-4 script (queries, per-class   *)
(* lookups, CSV export) and its helper write_csv.                          *)
(*                                                                         *)
(* Text is modelled as a sequence of tokens.  A token is a TLA+ string     *)
(* holding a piece of text without comma, double quote or newline, or one  *)
(* of the three punctuation tokens "," "\"" "\n".  Real-valued quantities  *)
(* are held in integer units: distances in micrometres, probabilities in   *)
(* percent.                                                                *)
(***************************************************************************)
EXTENDS Integers, Sequences, FiniteSets, TLC

VARIABLES
    pc,             \* the script's position: the line it is about to run, "done" or "aborted"
    run,            \* which run of the script over the same database this is
    db,             \* the database: the set of recorded pairs
    csv_file,       \* the file manuscript_fig_4.csv and the handle on it: [state, content, opens]
    mouse_pairs, human_pairs,       \* the script's variables of these names
    mouse_results, human_results,
    fig,            \* index of the panel the current loop is at
    cls,            \* index i of the class the panel B/D loop is at
    call,           \* index of the next write_csv call of the current block
    loc,            \* the data the current block hands to write_csv, by source expression
    emitted,        \* the write_csv calls completed in this run, in order
    failure,        \* the exception that aborted the run, "" when none
    first_output,   \* the content of the file when the first run completed
    wdata,      \* write_csv harness: the data argument
    wdesc,      \* write_csv harness: the description argument of the outermost call
    wstack,     \* write_csv harness: the descriptions of the active write_csv frames
    wstatus,    \* write_csv harness: "idle", "running", "returned", "RecursionError"
    wfh0,       \* write_csv harness: the content of the file when the call was made
    hin,        \* histogram harness: the probed distances handed to np.histogram
    hout        \* histogram harness: what np.histogram returned (<<>> before the call)

wcsvVars == <<wdata, wdesc, wstack, wstatus, wfh0>>
histVars == <<hin, hout>>
scriptVars == <<pc, run, db, mouse_pairs, human_pairs, mouse_results, human_results,
                fig, cls, call, loc, emitted, failure, first_output>>
vars == <<pc, run, db, csv_file, mouse_pairs, human_pairs, mouse_results, human_results,
          fig, cls, call, loc, emitted, failure, first_output,
          wdata, wdesc, wstack, wstatus, wfh0, hin, hout>>

(***************************************************************************)
(* Bounds of the model.                                                    *)
(***************************************************************************)
MaxLen == 2          \* longest data sequence handed to write_csv on its own
MaxDepth == 4        \* the interpreter's recursion limit (frames of write_csv)
MaxProbed == 3       \* most distances handed to np.histogram on its own
MaxExtra == 2        \* most pairs the database holds beyond its base population

(***************************************************************************)
(* Values and their string form.                                           *)
(***************************************************************************)
Q == "\""
COMMA == ","
NL == "\n"

IntVal(n) == [t |-> "int", n |-> n, s |-> <<>>]
StrVal(s) == [t |-> "str", n |-> 0, s |-> s]
NaN == [t |-> "nan", n |-> 0, s |-> <<>>]
\* the data argument of write_csv: a Trace, or a sequence of values
Trace == [is_trace |-> TRUE, values |-> <<>>]
Sequence(values) == [is_trace |-> FALSE, values |-> values]

IsTrace(data) == data.is_trace

Digit(d) ==
    CASE d = 0 -> "0" [] d = 1 -> "1" [] d = 2 -> "2" [] d = 3 -> "3" [] d = 4 -> "4"
      [] d = 5 -> "5" [] d = 6 -> "6" [] d = 7 -> "7" [] d = 8 -> "8" [] d = 9 -> "9"

RECURSIVE StrInt(_)
StrInt(n) == IF n < 10 THEN <<Digit(n)>> ELSE StrInt(n \div 10) \o <<Digit(n % 10)>>

\* str(x) as map(str, cols) applies it: a string is itself, a number its decimal digits
str(v) ==
    CASE v.t = "str" -> v.s
      [] v.t = "int" -> StrInt(v.n)
      [] v.t = "nan" -> <<"nan">>

RECURSIVE join(_, _)
\* sep.join(strs) for a sequence of token sequences
join(sep, strs) ==
    IF Len(strs) = 0 THEN <<>>
    ELSE IF Len(strs) = 1 THEN strs[1]
    ELSE strs[1] \o <<sep>> \o join(sep, Tail(strs))

(***************************************************************************)
(* The file object.                                                        *)
(***************************************************************************)
\* fh.write(text) on an open handle
fh_write(fh, text) == [fh EXCEPT !.content = @ \o text]

\* lines 28-29: the row of a description and of data that is not a Trace
\* (line_Semicolon: the variant that joins with ';')
line_Semicolon(data, description) ==
    LET cols == <<(<<Q>> \o description \o <<Q>>)>> \o [i \in 1..Len(data) |-> str(data[i])]
    IN  join(";", cols)

line(data, description) ==
    LET cols == <<(<<Q>> \o description \o <<Q>>)>> \o [i \in 1..Len(data) |-> str(data[i])]
    IN  join(COMMA, cols)

\* write_csv, the branch taken for data that is not a Trace (lines 28-31).  The file is
\* opened 'wb' and written with str rows, as Python 2 allows.
\* (write_csv_NoNewline: the variant without line 31; write_csv_Closing: the variant
\* that closes the handle after the row)
write_csv_NoNewline(fh, data, description) ==
    fh_write(fh, line(data, description))

write_csv_Closing(fh, data, description) ==
    [fh_write(fh_write(fh, line(data, description)), <<NL>>) EXCEPT !.state = "closed"]

write_csv(fh, data, description) ==
    fh_write(fh_write(fh, line(data, description)), <<NL>>)

(***************************************************************************)
(* write_csv on its own: one call with arbitrary arguments.                *)
(***************************************************************************)
WcsvValues == {IntVal(0), IntVal(7), IntVal(12), StrVal(<<"L2/3">>), NaN}
WcsvSeqs == {Sequence(values) : values \in UNION {[1..n -> WcsvValues] : n \in 0..MaxLen}}
WcsvDescriptions ==
    { <<>>,
      <<"Figure 4A cell classes">>,
      <<"Figure 4B", COMMA, " L2/3 histogram values">>,
      <<"5", Q, " probe", NL>> }
WcsvOldContents == { <<>>, <<Q, "old", Q, COMMA, "1", NL>> }

InitW ==
    /\ wdata \in WcsvSeqs \cup {Trace}
    /\ wdesc \in WcsvDescriptions
    /\ wfh0 \in WcsvOldContents
    /\ csv_file = [state |-> "open", content |-> wfh0, opens |-> 1]
    /\ wstack = <<>>
    /\ wstatus = "idle"
    /\ hin = <<>>
    /\ hout = <<>>
    /\ pc = "harness"
    /\ run = 1
    /\ db = {}
    /\ mouse_pairs = {}
    /\ human_pairs = {}
    /\ mouse_results = <<>>
    /\ human_results = <<>>
    /\ fig = 1
    /\ cls = 1
    /\ call = 1
    /\ loc = <<>>
    /\ emitted = <<>>
    /\ failure = ""
    /\ first_output = <<>>

\* the caller's call: write_csv(fh, data, description)
WcsvCall ==
    /\ wstatus = "idle"
    /\ wstack' = <<wdesc>>
    /\ wstatus' = "running"
    /\ UNCHANGED <<csv_file, wdata, wdesc, wfh0>>
    /\ UNCHANGED histVars
    /\ UNCHANGED scriptVars

\* line 25, reached with a Trace: the call write_csv(fh, data, description + "distance(um)").
\* The callee gets the same Trace, so no call of line 25 returns and line 26 is never run.
WcsvRecurse ==
    /\ wstatus = "running"
    /\ IsTrace(wdata)
    /\ Len(wstack) < MaxDepth
    /\ wstack' = <<wstack[1] \o <<"distance(um)">> >> \o wstack
    /\ UNCHANGED <<csv_file, wdata, wdesc, wstatus, wfh0>>
    /\ UNCHANGED histVars
    /\ UNCHANGED scriptVars

\* the call of line 25 made at the recursion limit: RecursionError unwinds every frame
WcsvRecursionError ==
    /\ wstatus = "running"
    /\ IsTrace(wdata)
    /\ Len(wstack) >= MaxDepth
    /\ wstack' = <<>>
    /\ wstatus' = "RecursionError"
    /\ UNCHANGED <<csv_file, wdata, wdesc, wfh0>>
    /\ UNCHANGED histVars
    /\ UNCHANGED scriptVars

\* lines 28-31, reached with anything else: write the row and return
WcsvWriteRow ==
    /\ wstatus = "running"
    /\ ~IsTrace(wdata)
    /\ csv_file' = write_csv(csv_file, wdata.values, wstack[1])
    /\ wstack' = Tail(wstack)
    /\ wstatus' = IF Len(wstack) = 1 THEN "returned" ELSE "running"
    /\ UNCHANGED <<wdata, wdesc, wfh0>>
    /\ UNCHANGED histVars
    /\ UNCHANGED scriptVars

NextW == WcsvCall \/ WcsvRecurse \/ WcsvRecursionError \/ WcsvWriteRow

SpecW == InitW /\ [][NextW]_vars

(***************************************************************************)
(* np.arange and np.histogram as line 201-202 use them (micrometres).      *)
(***************************************************************************)
BinStart == 0
BinStop == 180
BinStep == 20

\* np.arange(start, stop, step): ceil((stop - start) / step) values from start
arange(start, stop, step) ==
    [i \in 1..((stop - start + step - 1) \div step) |-> start + (i-1) * step]

bins == arange(BinStart, BinStop, BinStep)

\* a value falls in bin k of edges: half-open, except the last bin, which is closed
\* (in_bin_HalfOpenLast: the variant whose last bin is half-open too)
in_bin_HalfOpenLast(d, k, edges) ==
    /\ edges[k] <= d
    /\ d < edges[k+1]

in_bin(d, k, edges) ==
    /\ edges[k] <= d
    /\ IF k = Len(edges) - 1 THEN d <= edges[k+1] ELSE d < edges[k+1]

\* np.histogram(a, bins=edges): (counts, edges); values outside the edges are dropped
histogram(a, edges) ==
    LET counts == [k \in 1..(Len(edges) - 1) |->
                      Cardinality({i \in 1..Len(a) : in_bin(a[i], k, edges)})]
    IN  (0 :> counts) @@ (1 :> edges)

(***************************************************************************)
(* np.histogram on its own: one call on arbitrary probed distances.        *)
(***************************************************************************)
HistDistances == {0, 10, 20, 50, 150, 160, 170}

InitH ==
    /\ hin \in UNION {[1..n -> HistDistances] : n \in 0..MaxProbed}
    /\ hout = <<>>
    /\ csv_file = [state |-> "unopened", content |-> <<>>, opens |-> 0]
    /\ wdata = Sequence(<<>>)
    /\ wdesc = <<>>
    /\ wfh0 = <<>>
    /\ wstack = <<>>
    /\ wstatus = "idle"
    /\ pc = "harness"
    /\ run = 1
    /\ db = {}
    /\ mouse_pairs = {}
    /\ human_pairs = {}
    /\ mouse_results = <<>>
    /\ human_results = <<>>
    /\ fig = 1
    /\ cls = 1
    /\ call = 1
    /\ loc = <<>>
    /\ emitted = <<>>
    /\ failure = ""
    /\ first_output = <<>>

\* line 202: hist = np.histogram(probed_distance, bins=bins)
HistCall ==
    /\ hout = <<>>
    /\ hout' = histogram(hin, bins)
    /\ UNCHANGED <<csv_file, hin>>
    /\ UNCHANGED wcsvVars
    /\ UNCHANGED scriptVars

NextH == HistCall

SpecH == InitH /\ [][NextH]_vars

(***************************************************************************)
(* The class lists of lines 93-107: (CellClass, short name); the colour is *)
(* used for drawing only.                                                  *)
(***************************************************************************)
mouse_classes ==
    << [cell_class |-> "target_layer=2/3,pyramidal", name |-> "L2/3"],
       [cell_class |-> "cre_type=rorb", name |-> "Rorb"],
       [cell_class |-> "cre_type=tlx3", name |-> "Tlx3"],
       [cell_class |-> "cre_type=sim1", name |-> "Sim1"],
       [cell_class |-> "cre_type=ntsr1", name |-> "Ntsr1"] >>

human_classes ==
    << [cell_class |-> "target_layer=2,pyramidal", name |-> "L2"],
       [cell_class |-> "target_layer=3,pyramidal", name |-> "L3"],
       [cell_class |-> "target_layer=4,pyramidal", name |-> "L4"],
       [cell_class |-> "target_layer=5,pyramidal", name |-> "L5"],
       [cell_class |-> "target_layer=6,pyramidal", name |-> "L6"] >>

(***************************************************************************)
(* Optional numbers: None, a number, float('inf').                         *)
(***************************************************************************)
None == [kind |-> "none", v |-> 0]
Num(x) == [kind |-> "num", v |-> x]
Inf == [kind |-> "inf", v |-> 0]

\* the argument of a filter: passed, or left out of the call
Given(x) == [given |-> TRUE, val |-> x]
Unset == [given |-> FALSE, val |-> <<>>]

(***************************************************************************)
(* The arguments of the four query_pairs calls.                            *)
(***************************************************************************)
NearLimit == 100
MinAge == 40

MouseAcsf == "2mM Ca & Mg"
MouseAge == <<Num(MinAge), None>>

\* (NearDistance_Unfiltered: the variant of a call that passes no distance=)
NearDistance_Unfiltered == Unset
NearDistance == Given(<<None, Num(NearLimit)>>)

AllDistance == Given(<<None, Inf>>)

(***************************************************************************)
(* The analysis package the script calls.                                  *)
(***************************************************************************)
AboveLower(x, lo) == lo.kind = "none" \/ (lo.kind = "num" /\ x >= lo.v)
BelowUpper(x, hi) == hi.kind \in {"none", "inf"} \/ (hi.kind = "num" /\ x < hi.v)

\* query_pairs(...).all(): the pairs that meet every filter passed; a pair without a
\* reported distance is left out whenever a distance filter is passed
query_pairs(database, acsf, age, species, distance) ==
    { p \in database :
        /\ p.species = species
        /\ (acsf.given => p.acsf = acsf.val)
        /\ (age.given => AboveLower(p.age, age.val[1]) /\ BelowUpper(p.age, age.val[2]))
        /\ (distance.given =>
              /\ p.distance.kind = "num"
              /\ AboveLower(p.distance.v, distance.val[1])
              /\ BelowUpper(p.distance.v, distance.val[2])) }

ClassKeys(classes) == {classes[i].cell_class : i \in 1..Len(classes)}

\* classify_cells(classes, pairs=pairs): class -> the cells of the pairs that match it
classify_cells(classes, pairs) ==
    [c \in ClassKeys(classes) |->
        {<<p.id, "pre">> : p \in {q \in pairs : q.pre = c}}
          \cup {<<p.id, "post">> : p \in {q \in pairs : q.post = c}}]

\* the (point, lower, upper) estimate of a proportion, in percent
connection_probability(n_connected, n_probed) ==
    IF n_probed = 0 THEN <<NaN, NaN, NaN>>
    ELSE << IntVal((100 * n_connected) \div n_probed),
            IntVal((100 * n_connected) \div (n_probed + 2)),
            IntVal((100 * (n_connected + 2)) \div (n_probed + 2)) >>

\* measure_connectivity(pairs, groups): one entry per ordered pair of classes that appear
measure_connectivity(pairs, groups) ==
    LET present == {c \in DOMAIN groups : groups[c] # {}}
    IN  [key \in present \X present |->
            LET probed == {p \in pairs : <<p.id, "pre">> \in groups[key[1]]
                                          /\ <<p.id, "post">> \in groups[key[2]]}
                connected == {p \in probed : p.connected}
            IN  [ n_probed |-> Cardinality(probed),
                  n_connected |-> Cardinality(connected),
                  connection_probability |->
                      connection_probability(Cardinality(connected), Cardinality(probed)),
                  probed_pairs |-> probed,
                  connected_pairs |-> connected ]]

Window == 40
Spacing == 40

RECURSIVE ById(_)
\* the pairs of a result as the list the database returned them in: by id
ById(S) ==
    IF S = {} THEN <<>>
    ELSE LET first == CHOOSE p \in S : \A q \in S : p.id <= q.id
         IN  <<first>> \o ById(S \ {first})

SetMin(S) == CHOOSE x \in S : \A y \in S : x <= y
SetMax(S) == CHOOSE x \in S : \A y \in S : x >= y

\* distance_plot(connections, distance, window=, spacing=): (xvals, prop, upper, lower),
\* the estimate over the pairs within half a window of each x
distance_plot(probed, connected, window, spacing) ==
    LET dist == {p.distance.v : p \in probed}
        n == IF probed = {} THEN 0 ELSE ((SetMax(dist) - SetMin(dist)) \div spacing) + 1
        x(k) == SetMin(dist) + (k-1) * spacing
        near(k) == {p \in probed : 2 * p.distance.v >= 2 * x(k) - window
                                    /\ 2 * p.distance.v <= 2 * x(k) + window}
        est(k) == connection_probability(Cardinality(near(k) \cap connected),
                                         Cardinality(near(k)))
    IN  [ xvals |-> [k \in 1..n |-> IntVal(x(k))],
          prop  |-> [k \in 1..n |-> est(k)[1]],
          lower |-> [k \in 1..n |-> est(k)[2]],
          upper |-> [k \in 1..n |-> est(k)[3]] ]

(***************************************************************************)
(* The databases the script is run over: a base population with one pair   *)
(* inside every class of both species, without at most one of them, and    *)
(* with at most MaxExtra further pairs.                                    *)
(***************************************************************************)
Pair(id, species, acsf, age, pre, post, distance, connected) ==
    [ id |-> id, species |-> species, acsf |-> acsf, age |-> age, pre |-> pre,
      post |-> post, distance |-> distance, connected |-> connected ]

BasePairs ==
    { Pair(i, "mouse", MouseAcsf, 50, mouse_classes[i].cell_class,
           mouse_classes[i].cell_class, Num(50), i % 2 = 1) : i \in 1..Len(mouse_classes) }
    \cup
    { Pair(10 + i, "human", "1.3mM Ca & 1mM Mg", 50, human_classes[i].cell_class,
           human_classes[i].cell_class, Num(70), i % 2 = 0) : i \in 1..Len(human_classes) }

ExtraPairs ==
    LET m1 == mouse_classes[1].cell_class
        m2 == mouse_classes[2].cell_class
        h1 == human_classes[1].cell_class
    IN  { Pair(21, "mouse", MouseAcsf, 50, m1, m1, None, TRUE),
          Pair(22, "mouse", MouseAcsf, 50, m1, m1, Num(100), TRUE),
          Pair(23, "mouse", MouseAcsf, 50, m1, m1, Num(170), FALSE),
          Pair(24, "mouse", MouseAcsf, 50, m1, m2, Num(10), TRUE),
          Pair(25, "mouse", "1.3mM Ca & 1mM Mg", 50, m1, m1, Num(10), TRUE),
          Pair(26, "mouse", MouseAcsf, 30, m1, m1, Num(10), TRUE),
          Pair(27, "human", "1.3mM Ca & 1mM Mg", 50, h1, h1, None, FALSE),
          Pair(28, "human", "1.3mM Ca & 1mM Mg", 50, h1, h1, Num(150), TRUE),
          Pair(29, "human", "1.3mM Ca & 1mM Mg", 50, h1, "unclassified", Num(99), TRUE) }

Databases ==
    { (BasePairs \ gone) \cup extra :
        gone \in {g \in SUBSET BasePairs : Cardinality(g) <= 1},
        extra \in {e \in SUBSET ExtraPairs : Cardinality(e) <= MaxExtra} }

(***************************************************************************)
(* The write_csv calls of the script, in source order: the expression      *)
(* handed over as data and the description.                                *)
(***************************************************************************)
\* lines 157-167, panels A and C
CallsAC(fig_letter) ==
    << [data |-> "class_names",
        description |-> <<"Figure 4", fig_letter, " cell classes">>],
       [data |-> "n_connected",
        description |-> <<"Figure 4", fig_letter, " n connected pairs < 100um">>],
       [data |-> "n_probed",
        description |-> <<"Figure 4", fig_letter, " n probed pairs < 100um">>],
       [data |-> "conn_data[:,0]",
        description |-> <<"Figure 4", fig_letter, " connection probability < 100um">>],
       [data |-> "conn_data[:,1]",
        description |-> <<"Figure 4", fig_letter,
                          " connection probability < 100um lower 95% confidence interval">>],
       [data |-> "conn_data[:,2]",
        description |-> <<"Figure 4", fig_letter,
                          " connection probability < 100um upper 95% confidence interval">>] >>

\* lines 205-210, panels B and D
\* (CallsBD_CurveFirst: the variant with the four curve rows before the histogram rows)
CallsBD_CurveFirst(fig_letter, class_name) ==
    << [data |-> "xvals",
        description |-> <<"Figure 4", fig_letter, COMMA, " ", class_name, " distance plot x vals">>],
       [data |-> "prop",
        description |-> <<"Figure 4", fig_letter, COMMA, " ", class_name, " distance plot trace">>],
       [data |-> "upper",
        description |-> <<"Figure 4", fig_letter, COMMA, " ", class_name, " distance plot upper CI">>],
       [data |-> "lower",
        description |-> <<"Figure 4", fig_letter, COMMA, " ", class_name, " distance plot x vals">>],
       [data |-> "hist[1]",
        description |-> <<"Figure 4", fig_letter, COMMA, " ", class_name, " histogram values">>],
       [data |-> "hist[0]",
        description |-> <<"Figure 4", fig_letter, COMMA, " ", class_name, " histogram bin edges">>] >>

CallsBD(fig_letter, class_name) ==
    << [data |-> "hist[1]",
        description |-> <<"Figure 4", fig_letter, COMMA, " ", class_name, " histogram values">>],
       [data |-> "hist[0]",
        description |-> <<"Figure 4", fig_letter, COMMA, " ", class_name, " histogram bin edges">>],
       [data |-> "xvals",
        description |-> <<"Figure 4", fig_letter, COMMA, " ", class_name, " distance plot x vals">>],
       [data |-> "prop",
        description |-> <<"Figure 4", fig_letter, COMMA, " ", class_name, " distance plot trace">>],
       [data |-> "upper",
        description |-> <<"Figure 4", fig_letter, COMMA, " ", class_name, " distance plot upper CI">>],
       [data |-> "lower",
        description |-> <<"Figure 4", fig_letter, COMMA, " ", class_name, " distance plot x vals">>] >>

\* the loop lists of lines 126-128 and 184-186
PanelsAC == << [results |-> "mouse", cell_classes |-> mouse_classes, fig_letter |-> "A"],
               [results |-> "human", cell_classes |-> human_classes, fig_letter |-> "C"] >>
PanelsBD == << [results |-> "mouse", cell_classes |-> mouse_classes, fig_letter |-> "B"],
               [results |-> "human", cell_classes |-> human_classes, fig_letter |-> "D"] >>

ResultsOf(panel) == IF panel.results = "mouse" THEN mouse_results ELSE human_results

(***************************************************************************)
(* results[(cell_class, cell_class)]: the entry, or KeyError.              *)
(***************************************************************************)
EmptyResult ==
    [ n_probed |-> 0, n_connected |-> 0, connection_probability |-> <<NaN, NaN, NaN>>,
      probed_pairs |-> {}, connected_pairs |-> {} ]

\* (lookup_WithDefault: the variant of results.get(key, default))
lookup_WithDefault(results, key) ==
    IF key \in DOMAIN results THEN [ok |-> TRUE, value |-> results[key]]
    ELSE [ok |-> TRUE, value |-> EmptyResult]

lookup(results, key) ==
    IF key \in DOMAIN results THEN [ok |-> TRUE, value |-> results[key]]
    ELSE [ok |-> FALSE, value |-> EmptyResult]

(***************************************************************************)
(* open("manuscript_fig_4.csv", 'wb'): the content the file starts with.   *)
(***************************************************************************)
\* (open_ab: the variant of mode 'ab')
open_ab(content) == content
open_wb(content) == <<>>

(***************************************************************************)
(* The script.                                                             *)
(***************************************************************************)
NoFile == [state |-> "unopened", content |-> <<>>, opens |-> 0]
NoLocals == <<>>

Init ==
    /\ pc = "l114"
    /\ run = 1
    /\ db \in Databases
    /\ csv_file = NoFile
    /\ mouse_pairs = {}
    /\ human_pairs = {}
    /\ mouse_results = <<>>
    /\ human_results = <<>>
    /\ fig = 1
    /\ cls = 1
    /\ call = 1
    /\ loc = NoLocals
    /\ emitted = <<>>
    /\ failure = ""
    /\ first_output = <<>>
    /\ wdata = Sequence(<<>>)
    /\ wdesc = <<>>
    /\ wfh0 = <<>>
    /\ wstack = <<>>
    /\ wstatus = "idle"
    /\ hin = <<>>
    /\ hout = <<>>

\* an exception nothing catches: the script ends where it is
Abort(exception) ==
    /\ pc' = "aborted"
    /\ failure' = exception

\* lines 114-121: the two near-range queries, classification and estimate
NearQueries ==
    /\ pc = "l114"
    /\ LET mp == query_pairs(db, Given(MouseAcsf), Given(MouseAge), "mouse", NearDistance)
           hp == query_pairs(db, Unset, Unset, "human", NearDistance)
       IN  /\ mouse_pairs' = mp
           /\ human_pairs' = hp
           /\ mouse_results' = measure_connectivity(mp,
                                   classify_cells(mouse_classes, mp))
           /\ human_results' = measure_connectivity(hp,
                                   classify_cells(human_classes, hp))
    /\ pc' = "l123"
    /\ UNCHANGED <<run, db, csv_file, fig, cls, call, loc, emitted, failure, first_output>>
    /\ UNCHANGED <<wcsvVars, histVars>>

\* lines 174-181: the two all-distance queries, classification and estimate
AllQueries ==
    /\ pc = "l174"
    /\ LET mp == query_pairs(db, Given(MouseAcsf), Given(MouseAge), "mouse", AllDistance)
           hp == query_pairs(db, Unset, Unset, "human", AllDistance)
       IN  /\ mouse_pairs' = mp
           /\ human_pairs' = hp
           /\ mouse_results' = measure_connectivity(mp,
                                   classify_cells(mouse_classes, mp))
           /\ human_results' = measure_connectivity(hp,
                                   classify_cells(human_classes, hp))
    /\ pc' = "l191"
    /\ fig' = 1
    /\ cls' = 1
    /\ UNCHANGED <<run, db, csv_file, call, loc, emitted, failure, first_output>>
    /\ UNCHANGED <<wcsvVars, histVars>>

\* a query or a classification that raises
QueryFails ==
    /\ pc \in {"l114", "l174"}
    /\ Abort("QueryError")
    /\ UNCHANGED <<run, db, csv_file, mouse_pairs, human_pairs, mouse_results,
                   human_results, fig, cls, call, loc, emitted, first_output>>
    /\ UNCHANGED <<wcsvVars, histVars>>

\* line 123: csv_file = open("manuscript_fig_4.csv", 'wb')
OpenCsv ==
    /\ pc = "l123"
    /\ csv_file' = [state |-> "open", content |-> open_wb(csv_file.content),
                    opens |-> csv_file.opens + 1]
    /\ pc' = "l131"
    /\ fig' = 1
    /\ UNCHANGED <<run, db, mouse_pairs, human_pairs, mouse_results, human_results,
                   cls, call, loc, emitted, failure, first_output>>
    /\ UNCHANGED <<wcsvVars, histVars>>

\* line 123 when the file cannot be opened
OpenFails ==
    /\ pc = "l123"
    /\ Abort("IOError")
    /\ UNCHANGED <<run, db, csv_file, mouse_pairs, human_pairs, mouse_results,
                   human_results, fig, cls, call, loc, emitted, first_output>>
    /\ UNCHANGED <<wcsvVars, histVars>>

\* lines 131-155: one panel of A/C up to its first write_csv call
LookupAC ==
    /\ pc = "l131"
    /\ LET panel == PanelsAC[fig]
           cell_classes == panel.cell_classes
           n == Len(cell_classes)
           class_results(i) == lookup(ResultsOf(panel),
                                      <<cell_classes[i].cell_class, cell_classes[i].cell_class>>)
       IN  IF \A i \in 1..n : class_results(i).ok
           THEN /\ loc' = [
                      class_names |-> [i \in 1..n |-> StrVal(<<cell_classes[i].name>>)],
                      n_connected |-> [i \in 1..n |-> IntVal(class_results(i).value.n_connected)],
                      n_probed |-> [i \in 1..n |-> IntVal(class_results(i).value.n_probed)],
                      conn_data0 |-> [i \in 1..n |->
                                        class_results(i).value.connection_probability[1]],
                      conn_data1 |-> [i \in 1..n |->
                                        class_results(i).value.connection_probability[2]],
                      conn_data2 |-> [i \in 1..n |->
                                        class_results(i).value.connection_probability[3]] ]
                /\ pc' = "l157"
                /\ call' = 1
                /\ UNCHANGED failure
           ELSE /\ Abort("KeyError")
                /\ UNCHANGED <<loc, call>>
    /\ UNCHANGED <<run, db, csv_file, mouse_pairs, human_pairs, mouse_results,
                   human_results, fig, cls, emitted, first_output>>
    /\ UNCHANGED <<wcsvVars, histVars>>

\* the value of a data expression of a write_csv call
DataOf(expr) ==
    CASE expr = "class_names" -> loc.class_names
      [] expr = "n_connected" -> loc.n_connected
      [] expr = "n_probed" -> loc.n_probed
      [] expr = "conn_data[:,0]" -> loc.conn_data0
      [] expr = "conn_data[:,1]" -> loc.conn_data1
      [] expr = "conn_data[:,2]" -> loc.conn_data2
      [] expr = "hist[0]" -> loc.hist0
      [] expr = "hist[1]" -> loc.hist1
      [] expr = "xvals" -> loc.xvals
      [] expr = "prop" -> loc.prop
      [] expr = "upper" -> loc.upper
      [] expr = "lower" -> loc.lower

\* one write_csv call of lines 157-167
WriteAC ==
    /\ pc = "l157"
    /\ LET panel == PanelsAC[fig]
           calls == CallsAC(panel.fig_letter)
           c == calls[call]
       IN  IF csv_file.state = "open"
           THEN /\ csv_file' = write_csv(csv_file, DataOf(c.data), c.description)
                /\ emitted' = Append(emitted, [fig |-> panel.fig_letter, class_name |-> "",
                                               data |-> c.data,
                                               description |-> c.description])
                /\ IF call < Len(calls)
                   THEN /\ call' = call + 1
                        /\ UNCHANGED <<pc, fig>>
                   ELSE /\ call' = 1
                        /\ IF fig < Len(PanelsAC)
                           THEN /\ fig' = fig + 1
                                /\ pc' = "l131"
                           ELSE /\ fig' = 1
                                /\ pc' = "l174"
                /\ UNCHANGED failure
           ELSE /\ Abort("ValueError")
                /\ UNCHANGED <<csv_file, emitted, call, fig>>
    /\ UNCHANGED <<run, db, mouse_pairs, human_pairs, mouse_results, human_results,
                   cls, loc, first_output>>
    /\ UNCHANGED <<wcsvVars, histVars>>

\* lines 190-203: one class of a panel of B/D up to its first write_csv call
LookupBD ==
    /\ pc = "l191"
    /\ LET panel == PanelsBD[fig]
           cell_class == panel.cell_classes[cls].cell_class
           class_results == lookup(ResultsOf(panel), <<cell_class, cell_class>>)
           probed_pairs == class_results.value.probed_pairs
           connected_pairs == class_results.value.connected_pairs
           curve == distance_plot(probed_pairs, connected_pairs, Window, Spacing)
           probed_distance == [i \in 1..Cardinality(probed_pairs) |->
                                  ById(probed_pairs)[i].distance.v]
           hist == histogram(probed_distance, bins)
       IN  IF class_results.ok
           THEN /\ loc' = [ hist0 |-> [k \in 1..Len(hist[0]) |-> IntVal(hist[0][k])],
                            hist1 |-> [k \in 1..Len(hist[1]) |-> IntVal(hist[1][k])],
                            xvals |-> curve.xvals,
                            prop |-> curve.prop,
                            upper |-> curve.upper,
                            lower |-> curve.lower,
                            probed_distance |-> probed_distance ]
                /\ pc' = "l205"
                /\ call' = 1
                /\ UNCHANGED failure
           ELSE /\ Abort("KeyError")
                /\ UNCHANGED <<loc, call>>
    /\ UNCHANGED <<run, db, csv_file, mouse_pairs, human_pairs, mouse_results,
                   human_results, fig, cls, emitted, first_output>>
    /\ UNCHANGED <<wcsvVars, histVars>>

\* one write_csv call of lines 205-210
WriteBD ==
    /\ pc = "l205"
    /\ LET panel == PanelsBD[fig]
           class_name == panel.cell_classes[cls].name
           calls == CallsBD(panel.fig_letter, class_name)
           c == calls[call]
       IN  IF csv_file.state = "open"
           THEN /\ csv_file' = write_csv(csv_file, DataOf(c.data), c.description)
                /\ emitted' = Append(emitted, [fig |-> panel.fig_letter,
                                               class_name |-> class_name, data |-> c.data,
                                               description |-> c.description])
                /\ IF call < Len(calls)
                   THEN /\ call' = call + 1
                        /\ UNCHANGED <<pc, fig, cls>>
                   ELSE /\ call' = 1
                        /\ IF cls < Len(panel.cell_classes)
                           THEN /\ cls' = cls + 1
                                /\ pc' = "l191"
                                /\ UNCHANGED fig
                           ELSE /\ cls' = 1
                                /\ IF fig < Len(PanelsBD)
                                   THEN /\ fig' = fig + 1
                                        /\ pc' = "l191"
                                   ELSE /\ fig' = 1
                                        /\ pc' = "l214"
                /\ UNCHANGED failure
           ELSE /\ Abort("ValueError")
                /\ UNCHANGED <<csv_file, emitted, call, fig, cls>>
    /\ UNCHANGED <<run, db, mouse_pairs, human_pairs, mouse_results, human_results,
                   loc, first_output>>
    /\ UNCHANGED <<wcsvVars, histVars>>

\* a write_csv call whose fh.write raises: the first (line 30, nothing of the row is
\* written) or the second (line 31, the row is left without its newline)
WriteFails ==
    /\ pc \in {"l157", "l205"}
    /\ csv_file.state = "open"
    /\ LET c == IF pc = "l157"
                THEN CallsAC(PanelsAC[fig].fig_letter)[call]
                ELSE CallsBD(PanelsBD[fig].fig_letter, PanelsBD[fig].cell_classes[cls].name)[call]
       IN  \E written \in {0, 1} :
              csv_file' = IF written = 0 THEN csv_file
                          ELSE fh_write(csv_file, line(DataOf(c.data), c.description))
    /\ Abort("IOError")
    /\ UNCHANGED <<run, db, mouse_pairs, human_pairs, mouse_results, human_results,
                   fig, cls, call, loc, emitted, first_output>>
    /\ UNCHANGED <<wcsvVars, histVars>>

\* lines 214-220 and the end of the script
SetPlotRanges ==
    /\ pc = "l214"
    /\ pc' = "done"
    /\ first_output' = IF run = 1 THEN csv_file.content ELSE first_output
    /\ UNCHANGED <<run, db, csv_file, mouse_pairs, human_pairs, mouse_results,
                   human_results, fig, cls, call, loc, emitted, failure>>
    /\ UNCHANGED <<wcsvVars, histVars>>

\* the script is run again over the same database, after a run that completed
Rerun ==
    /\ pc = "done"
    /\ run = 1
    /\ run' = 2
    /\ pc' = "l114"
    /\ csv_file' = [state |-> "unopened", content |-> csv_file.content, opens |-> 0]
    /\ mouse_pairs' = {}
    /\ human_pairs' = {}
    /\ mouse_results' = <<>>
    /\ human_results' = <<>>
    /\ fig' = 1
    /\ cls' = 1
    /\ call' = 1
    /\ loc' = NoLocals
    /\ emitted' = <<>>
    /\ UNCHANGED <<db, failure, first_output>>
    /\ UNCHANGED <<wcsvVars, histVars>>

Next ==
    \/ NearQueries
    \/ OpenCsv
    \/ LookupAC
    \/ WriteAC
    \/ AllQueries
    \/ LookupBD
    \/ WriteBD
    \/ SetPlotRanges
    \/ QueryFails
    \/ OpenFails
    \/ WriteFails
    \/ Rerun

Spec == Init /\ [][Next]_vars

(***************************************************************************)
(* Reading a record back: the inverse of join and of str.                  *)
(***************************************************************************)
FirstIndex(s, tok) ==
    IF \E i \in 1..Len(s) : s[i] = tok
    THEN CHOOSE i \in 1..Len(s) : s[i] = tok /\ \A j \in 1..(i-1) : s[j] # tok
    ELSE 0

RECURSIVE SplitOn(_, _)
SplitOn(s, sep) ==
    LET i == FirstIndex(s, sep)
    IN  IF i = 0 THEN <<s>>
        ELSE <<SubSeq(s, 1, i-1)>> \o SplitOn(SubSeq(s, i+1, Len(s)), sep)

IsDigit(tok) == tok \in {"0", "1", "2", "3", "4", "5", "6", "7", "8", "9"}
DigitValue(tok) == CHOOSE d \in 0..9 : Digit(d) = tok

RECURSIVE ParseInt(_)
ParseInt(f) ==
    IF Len(f) = 0 THEN 0
    ELSE 10 * ParseInt(SubSeq(f, 1, Len(f)-1)) + DigitValue(f[Len(f)])

\* field f of a record reads back as the value v
ReadsAs(f, v) ==
    CASE v.t = "int" -> Len(f) > 0 /\ (\A i \in 1..Len(f) : IsDigit(f[i])) /\ ParseInt(f) = v.n
      [] v.t = "str" -> f = v.s
      [] v.t = "nan" -> f = <<"nan">>

CountTok(s, tok) == Cardinality({i \in 1..Len(s) : s[i] = tok})

\* rec is the record of description d and values data: d in quotes, taken as it is,
\* then a comma and a field for every value, then the one newline that ends it
IsRecordOf(rec, d, data) ==
    LET head == <<Q>> \o d \o <<Q>>
        rest == SubSeq(rec, Len(head)+1, Len(rec)-1)
        fields == SplitOn(rest, COMMA)
    IN  /\ Len(rec) >= Len(head) + 1
        /\ rec[Len(rec)] = NL
        /\ \A i \in 1..Len(rest) : rest[i] # NL
        /\ SubSeq(rec, 1, Len(head)) = head
        /\ Len(fields) = Len(data) + 1
        /\ fields[1] = <<>>
        /\ \A i \in 1..Len(data) : ReadsAs(fields[i+1], data[i])

(***************************************************************************)
(* C4: for every description d and every sequence data that is not a      *)
(* Trace, write_csv appends exactly one newline-terminated record: d in    *)
(* one pair of double quotes, then the string form of each value in order, *)
(* comma separated; what the file held before is unchanged and no header   *)
(* is written.                                                             *)
(***************************************************************************)
C4_OneRecordAppended ==
    (wstatus = "returned" /\ ~IsTrace(wdata)) =>
        LET new == csv_file.content
            n0 == Len(wfh0)
        IN  /\ Len(new) > n0
            /\ SubSeq(new, 1, n0) = wfh0
            /\ IsRecordOf(SubSeq(new, n0+1, Len(new)), wdesc, wdata.values)

C4_Witness ==
    /\ wstatus = "returned"
    /\ ~IsTrace(wdata)
    /\ Len(wdata.values) = 2
    /\ wdata.values[1] = IntVal(12)
    /\ wdata.values[2] = StrVal(<<"L2/3">>)
    /\ COMMA \in {wdesc[i] : i \in 1..Len(wdesc)}
    /\ wfh0 # <<>>

(***************************************************************************)
(* C10: write_csv terminates for every data argument: a sequence gives one *)
(* line and a return, a Trace gives exactly two lines and a return.        *)
(***************************************************************************)
C10_WriteCsvReturns ==
    (wstatus \notin {"idle", "running"}) =>
        /\ wstatus = "returned"
        /\ CountTok(csv_file.content, NL) - CountTok(wfh0, NL)
              = (IF IsTrace(wdata) THEN 2 ELSE 1)

RECURSIVE SumSeq(_)
SumSeq(q) == IF Len(q) = 0 THEN 0 ELSE q[1] + SumSeq(Tail(q))

HistDone == hout # <<>>

(***************************************************************************)
(* C8, as stated: the edges are 0, 20, ..., 160 um, every probed distance  *)
(* is counted in the one bin [20k, 20k+20) that contains it, and the bin   *)
(* counts sum to the number of probed pairs.                               *)
(***************************************************************************)
C8_EveryDistanceCounted ==
    HistDone =>
        /\ hout[1] = <<0, 20, 40, 60, 80, 100, 120, 140, 160>>
        /\ Len(hout[0]) = 8
        /\ \A k \in 1..8 :
              hout[0][k] = Cardinality({i \in 1..Len(hin) :
                                          20*(k-1) <= hin[i] /\ hin[i] < 20*k})
        /\ SumSeq(hout[0]) = Len(hin)

(***************************************************************************)
(* C8, amended: the edges are 0, 20, ..., 160 um; a probed distance d with *)
(* 0 <= d < 160 is counted in the one bin [20k, 20k+20) that contains it,  *)
(* a distance of exactly 160 um in the last bin, a distance above 160 um   *)
(* in no bin; the counts sum to the number of probed pairs whose distance  *)
(* lies in [0, 160] um.  Distances 10, 50, 150 give one count in each of   *)
(* [0,20), [40,60), [140,160) and none elsewhere.                          *)
(***************************************************************************)
C8_DistancesInRangeCounted ==
    HistDone =>
        /\ hout[1] = <<0, 20, 40, 60, 80, 100, 120, 140, 160>>
        /\ Len(hout[0]) = 8
        /\ \A k \in 1..8 :
              hout[0][k] = Cardinality({i \in 1..Len(hin) :
                                          \/ 20*(k-1) <= hin[i] /\ hin[i] < 20*k
                                          \/ k = 8 /\ hin[i] = 160})
        /\ SumSeq(hout[0]) = Cardinality({i \in 1..Len(hin) : 0 <= hin[i] /\ hin[i] <= 160})
        /\ (hin = <<10, 50, 150>> => hout[0] = <<1, 0, 1, 0, 0, 0, 0, 1>>)

C8_Witness ==
    /\ HistDone
    /\ hin = <<160, 170, 150>>
    /\ hout[0] = <<0, 0, 0, 0, 0, 0, 0, 2>>

(***************************************************************************)
(* Reading the script's output.                                            *)
(***************************************************************************)
\* the file holds a row whose description starts "Figure 4<letter>"
HasRowOfPanel(content, letter) ==
    \E i \in 1..(Len(content) - 2) :
        /\ content[i] = Q
        /\ content[i+1] = "Figure 4"
        /\ content[i+2] = letter

IsPrefix(a, b) == Len(a) <= Len(b) /\ SubSeq(b, 1, Len(a)) = a

\* the quantity a data expression of the script holds
Quantity(expr) ==
    CASE expr = "class_names" -> "cell-class names"
      [] expr = "n_connected" -> "connected counts"
      [] expr = "n_probed" -> "probed counts"
      [] expr = "conn_data[:,0]" -> "point estimates"
      [] expr = "conn_data[:,1]" -> "lower CI"
      [] expr = "conn_data[:,2]" -> "upper CI"
      [] expr = "hist[0]" -> "histogram counts"
      [] expr = "hist[1]" -> "histogram edges"
      [] expr = "xvals" -> "curve x"
      [] expr = "prop" -> "curve probability"
      [] expr = "upper" -> "curve upper"
      [] expr = "lower" -> "curve lower"

\* the two histogram rows count as one kind: the order names them together
OrderKind(expr) ==
    IF expr \in {"hist[0]", "hist[1]"} THEN "histogram" ELSE Quantity(expr)

NearRowKinds == << "cell-class names", "connected counts", "probed counts",
                   "point estimates", "lower CI", "upper CI" >>
ClassRowKinds == << "histogram", "histogram", "curve x", "curve probability",
                    "curve upper", "curve lower" >>

NearRows(letter) == [k \in 1..6 |-> <<letter, "", NearRowKinds[k]>>]

RECURSIVE Flatten(_)
Flatten(ss) == IF Len(ss) = 0 THEN <<>> ELSE ss[1] \o Flatten(Tail(ss))

ClassRows(letter, names) ==
    Flatten([i \in 1..Len(names) |-> [k \in 1..6 |-> <<letter, names[i], ClassRowKinds[k]>>]])

ExpectedOrder ==
    NearRows("A") \o NearRows("C")
      \o ClassRows("B", <<"L2/3", "Rorb", "Tlx3", "Sim1", "Ntsr1">>)
      \o ClassRows("D", <<"L2", "L3", "L4", "L5", "L6">>)

EmittedOrder ==
    [i \in 1..Len(emitted) |->
        <<emitted[i].fig, emitted[i].class_name, OrderKind(emitted[i].data)>>]

(***************************************************************************)
(* C1: the rows are emitted in one fixed order: the six near-range rows of *)
(* panel 4A, then of 4C, then for 4B and then 4D, class by class in list   *)
(* order, the two histogram rows and the curve's x, probability, upper and *)
(* lower bound; no row of a later panel or class comes before a row of an  *)
(* earlier one, and a run that completes has emitted all of them.          *)
(***************************************************************************)
C1_FixedEmissionOrder ==
    /\ IsPrefix(EmittedOrder, ExpectedOrder)
    /\ \A i \in 1..(Len(emitted) - 1) :
          OrderKind(emitted[i].data) = "histogram" /\ OrderKind(emitted[i+1].data) = "histogram"
              => emitted[i].data # emitted[i+1].data
    /\ (pc = "done" => EmittedOrder = ExpectedOrder)

C1_Witness ==
    /\ pc = "done"
    /\ Len(emitted) = 72
    /\ emitted[72].fig = "D"
    /\ emitted[72].class_name = "L6"
    /\ emitted[72].data = "lower"

(***************************************************************************)
(* C2: every row's label describes the quantity the row holds: the row     *)
(* labelled histogram values holds the counts, the row labelled histogram  *)
(* bin edges the edges, the row labelled distance plot x vals the curve's  *)
(* x values, and no two rows of one run share a label.                     *)
(***************************************************************************)
LabelOf(e) == e.description[Len(e.description)]

C2_LabelsDescribeRows ==
    /\ \A i \in 1..Len(emitted) :
          /\ LabelOf(emitted[i]) = " histogram values"
                => Quantity(emitted[i].data) = "histogram counts"
          /\ LabelOf(emitted[i]) = " histogram bin edges"
                => Quantity(emitted[i].data) = "histogram edges"
          /\ LabelOf(emitted[i]) = " distance plot x vals"
                => Quantity(emitted[i].data) = "curve x"
          /\ LabelOf(emitted[i]) = " distance plot upper CI"
                => Quantity(emitted[i].data) = "curve upper"
    /\ \A i, j \in 1..Len(emitted) :
          i # j => emitted[i].description # emitted[j].description

(***************************************************************************)
(* C3: the file of a completed run holds one line per write_csv call made, *)
(* 2*6 + 2*5*6 = 72 lines, whatever the database holds.                    *)
(***************************************************************************)
C3_LineCount ==
    /\ csv_file.state = "open" => CountTok(csv_file.content, NL) = Len(emitted)
    /\ pc = "done" => CountTok(csv_file.content, NL) = 72

C3_Witness ==
    /\ pc = "done"
    /\ CountTok(csv_file.content, NL) = 72
    /\ Cardinality(db) = 12

(***************************************************************************)
(* C5: a failure aborts the script where it happens: nothing is written    *)
(* after it and nothing in place of a missing result.  The file holds one  *)
(* complete row per write_csv call that returned before the failure, a row *)
(* of a panel is in the file only if every (class, class) key of the panel *)
(* was in the results, and a missing key in panel 4A or 4C leaves none of  *)
(* that panel's rows; a failure before the file is opened leaves the file  *)
(* as it was.                                                              *)
(***************************************************************************)
PanelKeysPresent(classes, results) ==
    \A i \in 1..Len(classes) :
        <<classes[i].cell_class, classes[i].cell_class>> \in DOMAIN results

C5_FailureAborts ==
    /\ failure # "" <=> pc = "aborted"
    /\ (pc = "aborted" /\ csv_file.state = "open")
          => CountTok(csv_file.content, NL) = Len(emitted)
    /\ (pc = "aborted" /\ csv_file.state = "unopened")
          => /\ emitted = <<>>
             /\ csv_file.content = (IF run = 1 THEN <<>> ELSE first_output)
    /\ \A i \in 1..Len(emitted) :
          PanelKeysPresent(IF emitted[i].fig \in {"A", "B"} THEN mouse_classes
                           ELSE human_classes,
                           IF emitted[i].fig \in {"A", "B"} THEN mouse_results
                           ELSE human_results)
    /\ failure = "KeyError"
          => /\ pc = "aborted"
             /\ \A i \in 1..Len(emitted) : emitted[i].fig # PanelsAC[fig].fig_letter
             /\ ~HasRowOfPanel(csv_file.content, PanelsAC[fig].fig_letter)
             /\ CountTok(csv_file.content, NL) = 6 * (fig - 1)

C5_Witness ==
    /\ pc = "aborted"
    /\ failure = "KeyError"
    /\ fig = 2
    /\ HasRowOfPanel(csv_file.content, "A")
    /\ ~HasRowOfPanel(csv_file.content, "C")
    /\ CountTok(csv_file.content, NL) = 6

(***************************************************************************)
(* C6: two runs over the same database leave the same file: the file is    *)
(* replaced on each run, not appended to.                                  *)
(***************************************************************************)
C6_SameOutputOnRerun ==
    (pc = "done" /\ run = 2) => csv_file.content = first_output

C6_Witness ==
    /\ pc = "done"
    /\ run = 2
    /\ CountTok(csv_file.content, NL) = 72
    /\ Cardinality(db) = 12

(***************************************************************************)
(* C7: every query passes a distance filter: no pair without a reported    *)
(* distance reaches classification, the estimate, the histogram or the     *)
(* curve; the near-range queries admit no pair at 100 um or beyond; the    *)
(* all-distance queries leave out only the pairs without a distance.       *)
(***************************************************************************)
NearPhase == pc \in {"l123", "l131", "l157", "l174"}
AllPhase == pc \in {"l191", "l205", "l214", "done"}

ProbedOf(results) == UNION {results[key].probed_pairs : key \in DOMAIN results}

C7_DistanceFiltered ==
    /\ \A p \in mouse_pairs \cup human_pairs \cup ProbedOf(mouse_results)
                  \cup ProbedOf(human_results) :
          p.distance.kind = "num"
    /\ NearPhase => \A p \in mouse_pairs \cup human_pairs : p.distance.v < 100
    /\ AllPhase =>
          /\ mouse_pairs = {p \in db : /\ p.species = "mouse"
                                       /\ p.acsf = "2mM Ca & Mg"
                                       /\ p.age >= 40
                                       /\ p.distance.kind = "num"}
          /\ human_pairs = {p \in db : p.species = "human" /\ p.distance.kind = "num"}

C7_Witness ==
    /\ pc = "l205"
    /\ \E p \in db : p.species = "mouse" /\ p.distance = None
    /\ \E p \in mouse_pairs : p.distance.v = 170
    /\ Cardinality(mouse_pairs) = 6

(***************************************************************************)
(* C9: the file is opened once per run, after the near-range queries and   *)
(* before the first write_csv call; every write_csv call happens while     *)
(* that handle is open and the script never closes or reopens it.          *)
(***************************************************************************)
C9_OneOpenHandle ==
    /\ csv_file.opens <= 1
    /\ pc \in {"l114", "l123"} => (csv_file.state = "unopened" /\ emitted = <<>>)
    /\ pc \in {"l131", "l157", "l174", "l191", "l205", "l214", "done"}
          => (csv_file.state = "open" /\ csv_file.opens = 1)
    /\ Len(emitted) > 0 => (csv_file.state = "open" /\ csv_file.opens = 1)
    /\ failure # "ValueError"

C9_Witness ==
    /\ pc = "done"
    /\ run = 2
    /\ csv_file.state = "open"
    /\ csv_file.opens = 1
    /\ Len(emitted) = 72

====
